---- MODULE Spec2Model ----
(***************************************************************************)
(* Model of src/mlops_task/run.py: a single-shot batch job that loads a    *)
(* YAML config, repairs and parses a CSV, computes a rolling-mean signal   *)
(* and writes one JSON report.  main() is modelled stage by stage; the     *)
(* program counter pc names the next statement group of main().            *)
(*                                                                         *)
(* Text is modelled as sequences of symbols: "q" is the double-quote       *)
(* character, "s" a whitespace character, "," the field delimiter, and     *)
(* every other symbol is an atomic run of ordinary characters (a cell).    *)
(* Numbers that the code computes as floats are kept exact: a rolling mean *)
(* is the pair (sum, n), the metric value is an integer count of 1/10000.  *)
(***************************************************************************)
EXTENDS Integers, Sequences, FiniteSets, TLC

VARIABLES
    pc,            \* position in main()
    configFile,    \* the config file: whether it exists, and its content
    inputExists,   \* os.path.exists(args.input)
    rawInput,      \* physical lines of the input file, once it has been read
    cleaned,       \* the local `cleaned`: the repaired lines
    config,        \* the local `config`
    df,            \* the DataFrame: columns and rows
    window,        \* the local `window`
    rolling_mean,  \* df['rolling_mean']
    signal,        \* df['signal']
    exc,           \* str(e) of the exception in flight, or "none"
    outputFile,    \* content of args.output
    stdout,        \* the reports printed by write_metrics, in order
    exitCode,      \* process exit status, "running" until the process ends
    stages         \* history: the stages of main() that have run, in order

vars == <<pc, configFile, inputExists, rawInput, cleaned, config, df,
          window, rolling_mean, signal, exc, outputFile, stdout, exitCode,
          stages>>

(***************************************************************************)
(* Bounds of the model.                                                    *)
(***************************************************************************)
MaxRows == 4
MaxClose == 2
MaxWindow == 3
MaxLatency == 1
MaxLineLen == 4

(***************************************************************************)
(* Symbols and small helpers.                                              *)
(***************************************************************************)
Digits == <<"0", "1", "2", "3", "4", "5", "6", "7", "8", "9">>

CloseCells == {Digits[i + 1] : i \in 0..MaxClose}

\* float(cell) for a numeric cell
ToNum(cell) == (CHOOSE i \in 1..Len(Digits) : Digits[i] = cell) - 1

Min(a, b) == IF a < b THEN a ELSE b

Max(a, b) == IF a > b THEN a ELSE b

SeqsUpTo(S, n) == UNION {[1..k -> S] : k \in 0..n}

RECURSIVE SumSeq(_)
SumSeq(s) == IF s = <<>> THEN 0 ELSE s[1] + SumSeq(Tail(s))

(***************************************************************************)
(* Input repair, line 68: line.strip().strip('"').                         *)
(***************************************************************************)
\* str.strip(): removes every leading and trailing whitespace character
RECURSIVE LStrip(_, _)
LStrip(line, ch) ==
    IF line # <<>> /\ Head(line) = ch THEN LStrip(Tail(line), ch) ELSE line

RECURSIVE RStrip(_, _)
RStrip(line, ch) ==
    IF line # <<>> /\ line[Len(line)] = ch
    THEN RStrip(SubSeq(line, 1, Len(line) - 1), ch)
    ELSE line

\* str.strip(chars) with a single character: removes every leading and every
\* trailing occurrence of it
Strip(line, ch) == RStrip(LStrip(line, ch), ch)

\* line.strip().strip('"')
RepairLine(line) == Strip(Strip(line, "s"), "q")

\* cleaned = ''.join(line.strip().strip('"') + '\n' for line in raw_f)
Cleaned(lines) == [i \in 1..Len(lines) |-> RepairLine(lines[i])]

(***************************************************************************)
(* pd.read_csv(io.StringIO(cleaned)), line 69, on the repaired lines:      *)
(* blank lines are skipped, the first remaining line is the header, every  *)
(* later line is one data row; a text without any line to take the header  *)
(* from raises EmptyDataError.                                             *)
(***************************************************************************)
\* the comma-separated fields of a line, each a sequence of symbols
RECURSIVE Fields(_)
Fields(line) ==
    IF \A i \in 1..Len(line) : line[i] # ","
    THEN <<line>>
    ELSE LET k == CHOOSE i \in 1..Len(line) :
                      line[i] = "," /\ \A j \in 1..(i - 1) : line[j] # ","
         IN  <<SubSeq(line, 1, k - 1)>> \o Fields(SubSeq(line, k + 1, Len(line)))

\* a field holding one run of ordinary characters is that cell; anything
\* else is text that is neither a known column name nor a number
Cell(field) == IF Len(field) = 1 THEN field[1] ELSE "text"

Cells(line) == LET f == Fields(line) IN [i \in 1..Len(f) |-> Cell(f[i])]

NonBlank(lines) == SelectSeq(lines, LAMBDA l : l # <<>>)

read_csv(text) ==
    LET body == NonBlank(text) IN
    IF body = <<>>
    THEN [ok |-> FALSE, columns |-> <<>>, rows |-> <<>>]
    ELSE [ok |-> TRUE,
          columns |-> Cells(body[1]),
          rows |-> [i \in 1..(Len(body) - 1) |-> Cells(body[i + 1])]]

NoFrame == [ok |-> FALSE, columns |-> <<>>, rows |-> <<>>]

\* df.empty, line 71: an axis of length 0
Empty(frame) == Len(frame.rows) = 0 \/ Len(frame.columns) = 0

\* 'close' in df.columns, line 73
HasClose(frame) == \E j \in 1..Len(frame.columns) : frame.columns[j] = "close"

\* df['close'] as numbers, lines 81 and 86
Close(frame) ==
    LET j == CHOOSE c \in 1..Len(frame.columns) : frame.columns[c] = "close"
    IN  [i \in 1..Len(frame.rows) |-> ToNum(frame.rows[i][j])]

(***************************************************************************)
(* Processing, lines 80-99.  Positions are 1-based here: position i of the *)
(* model is index i-1 of the code.                                         *)
(***************************************************************************)
NaN == [nan |-> TRUE, sum |-> 0, n |-> 1]

\* Rolling with min_periods=1: a mean over the rows available so far
RollingPartial(close, w) ==
    [i \in 1..Len(close) |->
        IF w >= 1
        THEN [nan |-> FALSE,
              sum |-> SumSeq(SubSeq(close, Max(1, i - w + 1), i)),
              n |-> Min(i, w)]
        ELSE NaN]

\* df['close'].rolling(window=w).mean(), line 81: the mean of the w values
\* ending at i once w values are available, NaN before that (min_periods
\* defaults to the window size); a window of 0 holds no observation
Rolling(close, w) ==
    [i \in 1..Len(close) |->
        IF w >= 1 /\ i >= w
        THEN [nan |-> FALSE, sum |-> SumSeq(SubSeq(close, i - w + 1, i)), n |-> w]
        ELSE NaN]

\* Greater with >= in place of >
GreaterOrEqual(c, m) == ~m.nan /\ c * m.n >= m.sum

\* close > rolling_mean, line 86: a comparison with NaN is False
Greater(c, m) == ~m.nan /\ c * m.n > m.sum

\* (df['close'] > df['rolling_mean']).astype(int), line 86
Signal(close, rm) ==
    [i \in 1..Len(close) |-> IF Greater(close[i], rm[i]) THEN 1 ELSE 0]

\* series[start:] with Python's slice rules, line 91: a negative start counts
\* from the end, and a start beyond the end gives the empty series
SliceFrom(series, start) ==
    LET n == Len(series)
        from == IF start < 0 THEN Max(n + start, 0) ELSE Min(start, n)
    IN  SubSeq(series, from + 1, n)

\* valid_signals = df['signal'][window-1:], line 91
ValidSignals(sig, w) == SliceFrom(sig, w - 1)

\* round(x, 4) for x = k/m, in units of 1/10000, ties to even
Round4(k, m) ==
    LET scaled == 10000 * k
        lo == scaled \div m
        twice == 2 * (scaled - lo * m)
    IN  IF twice < m THEN lo
        ELSE IF twice > m THEN lo + 1
        ELSE IF lo % 2 = 0 THEN lo ELSE lo + 1

\* round(float(valid_signals.mean()), 4), line 99: the mean of an empty
\* series is NaN, and round() and float() keep NaN
Value(valid) ==
    IF Len(valid) = 0
    THEN [nan |-> TRUE, e4 |-> 0]
    ELSE [nan |-> FALSE, e4 |-> Round4(SumSeq(valid), Len(valid))]

(***************************************************************************)
(* The config file and yaml.safe_load, line 50.                            *)
(***************************************************************************)
Keys == <<"seed", "window", "version">>

KeySet == {Keys[i] : i \in 1..Len(Keys)}

\* np.random.seed accepts 42 and rejects -1
SeedValues == {-1, 42}

\* rolling() rejects a negative window
WindowValues == -1..MaxWindow

VersionValues == {"v1"}

\* a Python object as yaml.safe_load returns it: a dict with the given keys,
\* None (an empty document) or a list of the given strings
Obj(type, keys, seed, win, version) ==
    [type |-> type, keys |-> keys, seed |-> seed, window |-> win,
     version |-> version]

\* config = {}, line 42
EmptyDict == Obj("dict", {}, 0, 0, "")

Dicts ==
    {Obj("dict", ks, s, w, v) :
        ks \in SUBSET KeySet,
        s \in SeedValues, w \in WindowValues, v \in VersionValues}

\* a value stored under a key the dict does not hold is not part of the dict
Canonical(o) ==
    Obj(o.type, o.keys,
        IF "seed" \in o.keys THEN o.seed ELSE 0,
        IF "window" \in o.keys THEN o.window ELSE 0,
        IF "version" \in o.keys THEN o.version ELSE "")

Documents ==
    {Canonical(d) : d \in Dicts}
        \cup {Obj("none", {}, 0, 0, "")}
        \cup {Obj("list", ks, 0, 0, "") : ks \in {{}, {"version"}, KeySet}}

\* the file at args.config: absent, text that is not YAML, or a YAML document
ConfigFiles ==
    {[exists |-> FALSE, malformed |-> FALSE, doc |-> EmptyDict],
     [exists |-> TRUE, malformed |-> TRUE, doc |-> EmptyDict]}
        \cup {[exists |-> TRUE, malformed |-> FALSE, doc |-> d] : d \in Documents}

\* key in config, line 54: raises TypeError on None
Contains(obj, key) == key \in obj.keys

\* the first key of Keys from position i on that config does not hold
RECURSIVE FirstMissing(_, _)
FirstMissing(obj, i) ==
    IF i > Len(Keys) THEN "none"
    ELSE IF ~Contains(obj, Keys[i]) THEN Keys[i]
    ELSE FirstMissing(obj, i + 1)

\* config.get("version", "unknown"), line 115, on a dict
GetVersion(obj) == IF "version" \in obj.keys THEN obj.version ELSE "unknown"

(***************************************************************************)
(* The input file: one physical line per entry.  Every line of the known   *)
(* producer is wrapped in one pair of double-quotes.                       *)
(***************************************************************************)
Wrap(content) == <<"q">> \o content \o <<"q">>

Headers == {<<"close">>, <<"open">>, <<"open", ",", "close">>}

\* a data line under the given header: its close cell (or the cell of the
\* only column), or nothing at all
DataLines(header) ==
    {<<>>} \cup
    {IF Len(header) = 1 THEN <<c>> ELSE <<"0", ",", c>> : c \in CloseCells}

InputFiles ==
    {<<>>} \cup
    UNION {{<<Wrap(h)>> \o [i \in 1..Len(rows) |-> Wrap(rows[i])] :
               rows \in SeqsUpTo(DataLines(h), MaxRows)} : h \in Headers}

(***************************************************************************)
(* Reports, lines 95-103 and 114-118, and write_metrics, lines 22-26.      *)
(***************************************************************************)
NoReport == [status |-> "none"]

\* SuccessReport counting only the rows that enter the aggregate
SuccessReportValidRows(cfg, frame, valid, latency) ==
    [version |-> cfg.version,
     rows_processed |-> Len(valid),
     metric |-> "signal_rate",
     value |-> Value(valid),
     latency_ms |-> latency,
     seed |-> cfg.seed,
     status |-> "success"]

SuccessReport(cfg, frame, valid, latency) ==
    [version |-> cfg.version,
     rows_processed |-> Len(frame.rows),
     metric |-> "signal_rate",
     value |-> Value(valid),
     latency_ms |-> latency,
     seed |-> cfg.seed,
     status |-> "success"]

ErrorReport(cfg, msg) ==
    [version |-> GetVersion(cfg), status |-> "error", error_message |-> msg]

\* write_metrics(output_path, metrics): the file is opened with 'w' and so
\* holds the last report written; the report is then printed
write_metrics(metrics) ==
    /\ outputFile' = metrics
    /\ stdout' = Append(stdout, metrics)

(***************************************************************************)
(* main(), lines 42-120.                                                   *)
(***************************************************************************)
StageOrder ==
    <<"config_exists", "config_parse", "config_keys", "seed", "input_exists",
      "input_parse", "empty_check", "close_check", "rolling_mean", "signal",
      "metrics">>

\* raise: control passes to the except clause of line 109 with str(e) = msg
Raise(msg) ==
    /\ exc' = msg
    /\ pc' = "except"

Init ==
    /\ pc = "config_exists"
    /\ configFile \in ConfigFiles
    /\ inputExists \in BOOLEAN
    /\ rawInput = <<>>
    /\ cleaned = <<>>
    /\ config = EmptyDict
    /\ df = NoFrame
    /\ window = 0
    /\ rolling_mean = <<>>
    /\ signal = <<>>
    /\ exc = <<>>
    /\ outputFile = NoReport
    /\ stdout = <<>>
    /\ exitCode = "running"
    /\ stages = <<>>

\* lines 46-47
CheckConfigExists ==
    /\ pc = "config_exists"
    /\ stages' = Append(stages, "config_exists")
    /\ IF ~configFile.exists
       THEN Raise(<<"Config file not found: ", "args.config">>)
       ELSE pc' = "config_parse" /\ exc' = exc
    /\ UNCHANGED <<configFile, inputExists, rawInput, cleaned, config, df, window,
                   rolling_mean, signal, outputFile, stdout, exitCode>>

\* lines 49-50: a YAML error leaves config as it was
LoadConfig ==
    /\ pc = "config_parse"
    /\ stages' = Append(stages, "config_parse")
    /\ IF configFile.malformed
       THEN Raise(<<"yaml error">>) /\ config' = config
       ELSE pc' = "config_keys" /\ exc' = exc /\ config' = configFile.doc
    /\ UNCHANGED <<configFile, inputExists, rawInput, cleaned, df, window,
                   rolling_mean, signal, outputFile, stdout, exitCode>>

\* lines 53-55
ValidateKeys ==
    /\ pc = "config_keys"
    /\ stages' = Append(stages, "config_keys")
    /\ IF config.type = "none"
       THEN Raise(<<"argument of type 'NoneType' is not iterable">>)
       ELSE IF FirstMissing(config, 1) # "none"
       THEN Raise(<<"Missing required config field: ", FirstMissing(config, 1)>>)
       ELSE pc' = "seed" /\ exc' = exc
    /\ UNCHANGED <<configFile, inputExists, rawInput, cleaned, config, df, window,
                   rolling_mean, signal, outputFile, stdout, exitCode>>

\* line 60: config['seed'] on a list raises TypeError
SetSeed ==
    /\ pc = "seed"
    /\ stages' = Append(stages, "seed")
    /\ IF config.type # "dict"
       THEN Raise(<<"list indices must be integers or slices, not str">>)
       ELSE IF config.seed < 0
       THEN Raise(<<"Seed must be between 0 and 2**32 - 1">>)
       ELSE pc' = "input_exists" /\ exc' = exc
    /\ UNCHANGED <<configFile, inputExists, rawInput, cleaned, config, df, window,
                   rolling_mean, signal, outputFile, stdout, exitCode>>

\* lines 63-64
CheckInputExists ==
    /\ pc = "input_exists"
    /\ stages' = Append(stages, "input_exists")
    /\ IF ~inputExists
       THEN Raise(<<"Input file not found: ", "args.input">>)
       ELSE pc' = "input_parse" /\ exc' = exc
    /\ UNCHANGED <<configFile, inputExists, rawInput, cleaned, config, df, window,
                   rolling_mean, signal, outputFile, stdout, exitCode>>

\* lines 67-69: the file's content is first observed here
LoadDataset ==
    /\ pc = "input_parse"
    /\ stages' = Append(stages, "input_parse")
    /\ \E file \in InputFiles :
          /\ rawInput' = file
          /\ cleaned' = Cleaned(file)
          /\ LET frame == read_csv(Cleaned(file)) IN
             IF ~frame.ok
             THEN Raise(<<"No columns to parse from file">>) /\ df' = df
             ELSE pc' = "empty_check" /\ exc' = exc /\ df' = frame
    /\ UNCHANGED <<configFile, inputExists, config, window, rolling_mean,
                   signal, outputFile, stdout, exitCode>>

\* CheckEmpty with the column check of line 73 placed before the empty check
CheckEmptyAfterClose ==
    /\ pc = "empty_check"
    /\ stages' = Append(stages, "empty_check")
    /\ IF ~HasClose(df)
       THEN Raise(<<"Missing required column: '", "close", "'">>)
       ELSE IF Empty(df)
       THEN Raise(<<"Input CSV is empty">>)
       ELSE pc' = "close_check" /\ exc' = exc
    /\ UNCHANGED <<configFile, inputExists, rawInput, cleaned, config, df, window,
                   rolling_mean, signal, outputFile, stdout, exitCode>>

\* lines 71-72
CheckEmpty ==
    /\ pc = "empty_check"
    /\ stages' = Append(stages, "empty_check")
    /\ IF Empty(df)
       THEN Raise(<<"Input CSV is empty">>)
       ELSE pc' = "close_check" /\ exc' = exc
    /\ UNCHANGED <<configFile, inputExists, rawInput, cleaned, config, df, window,
                   rolling_mean, signal, outputFile, stdout, exitCode>>

\* CheckClose with a message that does not name the column
CheckCloseGeneric ==
    /\ pc = "close_check"
    /\ stages' = Append(stages, "close_check")
    /\ IF ~HasClose(df)
       THEN Raise(<<"Missing required column: '", "'">>)
       ELSE pc' = "rolling_mean" /\ exc' = exc
    /\ UNCHANGED <<configFile, inputExists, rawInput, cleaned, config, df, window,
                   rolling_mean, signal, outputFile, stdout, exitCode>>

\* lines 73-74
CheckClose ==
    /\ pc = "close_check"
    /\ stages' = Append(stages, "close_check")
    /\ IF ~HasClose(df)
       THEN Raise(<<"Missing required column: '", "close", "'">>)
       ELSE pc' = "rolling_mean" /\ exc' = exc
    /\ UNCHANGED <<configFile, inputExists, rawInput, cleaned, config, df, window,
                   rolling_mean, signal, outputFile, stdout, exitCode>>

\* lines 80-81
RollingMean ==
    /\ pc = "rolling_mean"
    /\ stages' = Append(stages, "rolling_mean")
    /\ window' = config.window
    /\ IF config.window < 0
       THEN Raise(<<"window must be an integer 0 or greater">>)
            /\ rolling_mean' = rolling_mean
       ELSE /\ pc' = "signal"
            /\ exc' = exc
            /\ rolling_mean' = Rolling(Close(df), config.window)
    /\ UNCHANGED <<configFile, inputExists, rawInput, cleaned, config, df, signal,
                   outputFile, stdout, exitCode>>

\* line 86
GenerateSignal ==
    /\ pc = "signal"
    /\ stages' = Append(stages, "signal")
    /\ signal' = Signal(Close(df), rolling_mean)
    /\ pc' = "metrics"
    /\ UNCHANGED <<configFile, inputExists, rawInput, cleaned, config, df, window,
                   rolling_mean, exc, outputFile, stdout, exitCode>>

\* lines 91-107: the latency is whatever the clock says
Metrics ==
    /\ pc = "metrics"
    /\ stages' = Append(stages, "metrics")
    /\ \E latency_ms \in 0..MaxLatency :
          write_metrics(SuccessReport(config, df, ValidSignals(signal, window),
                                      latency_ms))
    /\ pc' = "done"
    /\ exitCode' = 0
    /\ UNCHANGED <<configFile, inputExists, rawInput, cleaned, config, df, window,
                   rolling_mean, signal, exc>>

\* lines 109-120: config.get exists on a dict only; on None or a list it
\* raises AttributeError inside the handler, which nothing catches: the
\* interpreter prints the traceback and exits with status 1
Except ==
    /\ pc = "except"
    /\ IF config.type = "dict"
       THEN /\ write_metrics(ErrorReport(config, exc))
            /\ pc' = "done"
            /\ exc' = exc
       ELSE /\ pc' = "crashed"
            /\ exc' = <<"object has no attribute 'get'">>
            /\ UNCHANGED <<outputFile, stdout>>
    /\ exitCode' = 1
    /\ UNCHANGED <<configFile, inputExists, rawInput, cleaned, config, df, window,
                   rolling_mean, signal, stages>>

Next ==
    \/ CheckConfigExists
    \/ LoadConfig
    \/ ValidateKeys
    \/ SetSeed
    \/ CheckInputExists
    \/ LoadDataset
    \/ CheckEmpty
    \/ CheckClose
    \/ RollingMean
    \/ GenerateSignal
    \/ Metrics
    \/ Except

Spec == Init /\ [][Next]_vars

(***************************************************************************)
(* The input repair of lines 67-68 on its own, over arbitrary lines.       *)
(***************************************************************************)
LineSymbols == {"q", "s", "a"}

RepairInit ==
    /\ pc = "repair"
    /\ configFile = [exists |-> FALSE, malformed |-> FALSE, doc |-> EmptyDict]
    /\ inputExists = TRUE
    /\ rawInput \in {<<line>> : line \in SeqsUpTo(LineSymbols, MaxLineLen)}
    /\ cleaned = <<>>
    /\ config = EmptyDict
    /\ df = NoFrame
    /\ window = 0
    /\ rolling_mean = <<>>
    /\ signal = <<>>
    /\ exc = <<>>
    /\ outputFile = NoReport
    /\ stdout = <<>>
    /\ exitCode = "running"
    /\ stages = <<>>

\* lines 67-68
StripInput ==
    /\ pc = "repair"
    /\ cleaned' = Cleaned(rawInput)
    /\ pc' = "repaired"
    /\ UNCHANGED <<configFile, inputExists, rawInput, config, df, window,
                   rolling_mean, signal, exc, outputFile, stdout, exitCode,
                   stages>>

RepairNext == StripInput

SpecRepair == RepairInit /\ [][RepairNext]_vars

(***************************************************************************)
(* Properties.                                                             *)
(***************************************************************************)
\* the process has ended: normally, or by an exception nothing caught
Terminated == pc \in {"done", "crashed"}

Ran(stage) == \E i \in 1..Len(stages) : stages[i] = stage

Succeeded == pc = "done" /\ Len(stdout) = 1 /\ stdout[1].status = "success"

ReportedError == Len(stdout) = 1 /\ stdout[1].status = "error"

HasToken(msg, token) == \E i \in 1..Len(msg) : msg[i] = token

\* C1: every run that has terminated has written exactly one report, the
\* one the output file holds: never zero reports, never two.
C1_ExactlyOneReport ==
    Terminated => (Len(stdout) = 1 /\ outputFile = stdout[1])

\* C2: a run in which a stage failed ends with exactly one Error report,
\* carrying the loaded config's version when it has one and "unknown"
\* otherwise, the failure's description as error_message, and exit code 1.
C2_FailureReported ==
    (Terminated /\ exc # <<>>) =>
        /\ ReportedError
        /\ stdout[1].version =
              (IF config.type = "dict" /\ "version" \in config.keys
               THEN config.version ELSE "unknown")
        /\ stdout[1].error_message = exc
        /\ exitCode = 1

\* the first key, in the order seed, window, version, that the parsed
\* config does not hold
FirstAbsent(obj) ==
    Keys[CHOOSE i \in 1..Len(Keys) :
            /\ Keys[i] \notin obj.keys
            /\ \A j \in 1..(i - 1) : Keys[j] \in obj.keys]

\* C3: a run whose parsed config lacks one of seed, window, version ends
\* with an Error report whose error_message is exactly "Missing required
\* config field: <k>", k the first absent key, and runs no dataset stage.
C3_MissingKeyMessage ==
    (Terminated /\ Ran("config_keys") /\ \E k \in KeySet : k \notin config.keys) =>
        /\ ReportedError
        /\ stdout[1].error_message =
              <<"Missing required config field: ", FirstAbsent(config)>>
        /\ ~Ran("input_exists")

\* C4: a run whose post-warm-up slice signal[window-1 ..] is empty ends
\* with an Error report, never with a Success report.
C4_EmptySliceIsFailure ==
    (Terminated /\ Ran("signal") /\ ValidSignals(signal, window) = <<>>) =>
        ReportedError

\* the datasets of the same length that differ from close only in the
\* warm-up rows (positions 1 .. w-1 here, 0 .. w-2 in the code)
WarmupVariants(close, w) ==
    LET k == Max(0, Min(w - 1, Len(close))) IN
    {[i \in 1..Len(close) |-> IF i <= k THEN f[i] ELSE close[i]] :
        f \in [1..k -> 0..MaxClose]}

SignalOf(close, w) == Signal(close, Rolling(close, w))

ValueOf(close, w) == Value(ValidSignals(SignalOf(close, w), w))

Abs(x) == IF x < 0 THEN -x ELSE x

\* C5 as claimed: a dataset that differs from the one of a successful run
\* only in warm-up close values yields the same value.
C5_WarmupNeverInfluences ==
    Succeeded =>
        \A other \in WarmupVariants(Close(df), window) :
            ValueOf(other, window) = stdout[1].value

\* C5 as amended: a dataset that differs from the one of a successful run
\* only in warm-up close values has the same signal at every warm-up
\* position and at every position from 2w-2 on (2w-1 here), and the same
\* number of aggregated positions; only the signals at positions w-1 .. 2w-3,
\* whose windows hold warm-up rows, can differ, so the numerators of the two
\* values differ by at most w-1.
C5_WarmupInfluenceBounded ==
    Succeeded =>
        \A other \in WarmupVariants(Close(df), window) :
            LET sig == SignalOf(other, window) IN
            /\ \A i \in 1..Len(sig) :
                  (i < window \/ i >= 2 * window - 1) => sig[i] = signal[i]
            /\ \A i \in 1..Len(sig) : i < window => sig[i] = 0
            /\ Len(ValidSignals(sig, window)) = Len(ValidSignals(signal, window))
            /\ Abs(SumSeq(ValidSignals(sig, window))
                     - SumSeq(ValidSignals(signal, window))) <= Max(window - 1, 0)

\* C5 witness: a successful run with window 2 for which a dataset differing
\* only in the warm-up row yields another value.
C5_Witness ==
    /\ Succeeded
    /\ window = 2
    /\ Len(signal) >= 3
    /\ \E other \in WarmupVariants(Close(df), window) :
          ValueOf(other, window) # stdout[1].value

\* the data rows of the repaired input: the lines after the header that
\* are not blank once repaired
DataRowCount(lines) ==
    Cardinality({i \in 2..Len(lines) : RepairLine(lines[i]) # <<>>})

\* C6: in every Success report rows_processed is the number of data rows
\* of the repaired input, warm-up rows included.
C6_RowsProcessed ==
    Succeeded => stdout[1].rows_processed = DataRowCount(rawInput)

\* C6 witness: a success over three data rows and a blank line with
\* window 3, so that two of the three counted rows are warm-up rows.
C6_Witness ==
    /\ Succeeded
    /\ window = 3
    /\ Len(rawInput) = 5
    /\ stdout[1].rows_processed = 3

\* C7 as claimed: a run that parsed an input without a close column ends
\* with an Error report whose message contains "close", and exit code 1,
\* whatever the number of data rows.
C7_NoCloseColumn ==
    (Terminated /\ df.ok /\ ~HasClose(df)) =>
        /\ ReportedError
        /\ HasToken(stdout[1].error_message, "close")
        /\ exitCode = 1

\* C7 as amended: a run that parsed an input without a close column and
\* with at least one data row ends with an Error report whose message
\* contains "close", and exit code 1.
C7_NoCloseColumnWithRows ==
    (Terminated /\ df.ok /\ ~HasClose(df) /\ Len(df.rows) >= 1) =>
        /\ ReportedError
        /\ HasToken(stdout[1].error_message, "close")
        /\ exitCode = 1

\* C7 witness: a terminated run over a parsed input with two data rows and
\* no close column.
C7_Witness ==
    /\ Terminated
    /\ df.ok
    /\ ~HasClose(df)
    /\ Len(df.rows) = 2
    /\ ReportedError

\* exactly one leading and exactly one trailing double-quote removed
StripOneQuote(line) ==
    LET a == IF line # <<>> /\ Head(line) = "q" THEN Tail(line) ELSE line
    IN  IF a # <<>> /\ a[Len(a)] = "q" THEN SubSeq(a, 1, Len(a) - 1) ELSE a

\* C8: the repaired line is the whitespace-stripped line without exactly
\* one leading and exactly one trailing double-quote, when present.
C8_ExactlyOneQuote ==
    pc = "repaired" =>
        cleaned[1] = StripOneQuote(Strip(rawInput[1], "s"))

\* the sum of the w values of close ending at position i
RECURSIVE WindowSum(_, _, _)
WindowSum(close, i, w) ==
    IF w = 0 THEN 0 ELSE close[i] + WindowSum(close, i - 1, w - 1)

\* C9: with window w >= 1, signal[i] is 1 exactly when i >= w-1 (i >= w
\* here) and close[i] is strictly greater than the unweighted mean of the w
\* values ending at i, and 0 otherwise.
C9_SignalRule ==
    (Ran("signal") /\ window >= 1) =>
        /\ Len(signal) = Len(df.rows)
        /\ \A i \in 1..Len(signal) :
              signal[i] =
                 (IF i >= window
                     /\ Close(df)[i] * window > WindowSum(Close(df), i, window)
                  THEN 1 ELSE 0)

\* C9 witness: signals computed with window 2 over at least three rows,
\* with a 1 and, after the warm-up row, a 0.
C9_Witness ==
    /\ Ran("signal")
    /\ window = 2
    /\ Len(signal) >= 3
    /\ \E i \in 2..Len(signal) : signal[i] = 1
    /\ \E i \in 2..Len(signal) : signal[i] = 0

\* the stage that raises the given message
StageOfMessage(msg) ==
    CASE msg[1] = "Config file not found: " -> "config_exists"
      [] msg[1] = "yaml error" -> "config_parse"
      [] msg[1] = "argument of type 'NoneType' is not iterable" -> "config_keys"
      [] msg[1] = "Missing required config field: " -> "config_keys"
      [] msg[1] = "Input file not found: " -> "input_exists"
      [] msg[1] = "No columns to parse from file" -> "input_parse"
      [] msg[1] = "Input CSV is empty" -> "empty_check"
      [] msg[1] = "Missing required column: '" -> "close_check"
      [] msg[1] = "window must be an integer 0 or greater" -> "rolling_mean"
      [] OTHER -> "seed"

\* the stages of the claim, without the seeding of line 60
ClaimedOrder ==
    <<"config_exists", "config_parse", "config_keys", "input_exists",
      "input_parse", "empty_check", "close_check", "rolling_mean", "signal",
      "metrics">>

\* C10: the stages that have run are an initial part of the fixed order,
\* each once; while no stage has failed the next stage is the one after the
\* last that ran; a failure ends the stages, so the message in flight and
\* the reported error_message are those of the last stage that ran.  With
\* both files missing the message is the config's; with zero rows and no
\* close column it is the empty-input one.
C10_StageOrder ==
    /\ Len(stages) <= Len(StageOrder)
    /\ \A i \in 1..Len(stages) : stages[i] = StageOrder[i]
    /\ SelectSeq(stages, LAMBDA st : st # "seed")
          = SubSeq(ClaimedOrder, 1,
                   Len(SelectSeq(stages, LAMBDA st : st # "seed")))
    /\ pc \notin {"except", "done", "crashed"} => pc = StageOrder[Len(stages) + 1]
    /\ pc = "except" => StageOfMessage(exc) = stages[Len(stages)]
    /\ ReportedError =>
          StageOfMessage(stdout[1].error_message) = stages[Len(stages)]
    /\ Succeeded => stages = StageOrder
    /\ (pc = "done" /\ ~configFile.exists /\ ~inputExists) =>
          /\ ReportedError
          /\ stdout[1].error_message[1] = "Config file not found: "
    /\ (pc = "done" /\ df.ok /\ Len(df.rows) = 0 /\ ~HasClose(df)) =>
          /\ ReportedError
          /\ stdout[1].error_message = <<"Input CSV is empty">>

\* C10 witness: a run over a header without close and without data rows
\* that has reported the empty-input message.
C10_Witness ==
    /\ pc = "done"
    /\ df.ok
    /\ Len(df.rows) = 0
    /\ ~HasClose(df)
    /\ stdout[1].error_message = <<"Input CSV is empty">>

====
